---- MODULE Spec2Model ----
(***************************************************************************)
(* The Avalon game engine of src/src/game: GameState and the five action   *)
(* methods of GameEngine (propose_team, vote_on_team,                      *)
(* process_voting_result, submit_mission_result, assassinate), with the    *)
(* role and mission tables they read.  Player ids are 0..N-1 as in the     *)
(* code; rounds are 1-based.                                               *)
(***************************************************************************)
EXTENDS Integers, Sequences, FiniteSets, TLC

(* ------------------------------------------------------------------ *)
(* Bounds of the model                                                 *)
(* ------------------------------------------------------------------ *)

\* Smallest supported player count (roles.py, rules.py).
MinPlayers == 5
\* Spec builds games of MinPlayers..MaxPlayers players.
MaxPlayers == 5
\* SpecPlay builds games of MinPlayers..MaxPlayersPlay players.
MaxPlayersPlay == 10
\* SpecPlay deals the roles rotated by 0..MaxRotation seats.
MaxRotation == 1
\* process_voting_result can raise vote_round without limit; the model stops there.
VoteRoundCap == 6
\* submit_mission_result can append without limit; the model stops there.
MissionCap == 5
\* SpecWeb stops starting phase handlers there.
DispatchCap == 10
\* SpecWeb stops starting a phase handler while another request is being served
\* there.
OverlapCap == 1
\* SpecWellFormed stops appending mission results there.
MissionCapWellFormed == 6
\* SpecAnyVoter stops appending mission results there.
MissionCapAnyVoter == 1
\* SpecRepeatedMember stops appending mission results there.
MissionCapRepeatedMember == 2

(* ------------------------------------------------------------------ *)
(* rules.py                                                            *)
(* ------------------------------------------------------------------ *)

MissionConfig(r, s, f) == [round_number |-> r, team_size |-> s, fails_needed |-> f]

MISSION_CONFIGS_5 ==
  << MissionConfig(1, 2, 1), MissionConfig(2, 3, 1), MissionConfig(3, 2, 1),
     MissionConfig(4, 3, 1), MissionConfig(5, 3, 1) >>

MISSION_CONFIGS_6 ==
  << MissionConfig(1, 2, 1), MissionConfig(2, 3, 1), MissionConfig(3, 4, 1),
     MissionConfig(4, 3, 1), MissionConfig(5, 4, 1) >>

MISSION_CONFIGS_7 ==
  << MissionConfig(1, 2, 1), MissionConfig(2, 3, 1), MissionConfig(3, 3, 1),
     MissionConfig(4, 4, 2), MissionConfig(5, 4, 1) >>

MISSION_CONFIGS_8 ==
  << MissionConfig(1, 3, 1), MissionConfig(2, 4, 1), MissionConfig(3, 4, 1),
     MissionConfig(4, 5, 2), MissionConfig(5, 5, 1) >>

MISSION_CONFIGS_9 ==
  << MissionConfig(1, 3, 1), MissionConfig(2, 4, 1), MissionConfig(3, 4, 1),
     MissionConfig(4, 5, 2), MissionConfig(5, 5, 1) >>

MISSION_CONFIGS_10 ==
  << MissionConfig(1, 3, 1), MissionConfig(2, 4, 1), MissionConfig(3, 4, 1),
     MissionConfig(4, 5, 2), MissionConfig(5, 5, 1) >>

get_mission_configs(player_count) ==
  CASE player_count = 5  -> MISSION_CONFIGS_5
    [] player_count = 6  -> MISSION_CONFIGS_6
    [] player_count = 7  -> MISSION_CONFIGS_7
    [] player_count = 8  -> MISSION_CONFIGS_8
    [] player_count = 9  -> MISSION_CONFIGS_9
    [] player_count = 10 -> MISSION_CONFIGS_10
    [] OTHER             -> MISSION_CONFIGS_5

get_evil_count(player_count) ==
  CASE player_count = 5  -> 2
    [] player_count = 6  -> 2
    [] player_count = 7  -> 3
    [] player_count = 8  -> 3
    [] player_count = 9  -> 3
    [] player_count = 10 -> 4
    [] OTHER             -> 2

(* ------------------------------------------------------------------ *)
(* roles.py                                                            *)
(* ------------------------------------------------------------------ *)

RoleType ==
  {"MERLIN", "PERCIVAL", "SERVANT", "ASSASSIN", "MORGANA", "MORDRED", "OBERON", "MINION"}

\* ROLE_DEFINITIONS[role].team
RoleTeam(role) ==
  IF role \in {"MERLIN", "PERCIVAL", "SERVANT"} THEN "GOOD" ELSE "EVIL"

\* Faulty variant of can_see: the EVIL roles see every EVIL role, Oberon too.
can_see_Oberon(self, other_role) ==
  CASE self = "MERLIN"   -> RoleTeam(other_role) = "EVIL" /\ other_role \notin {"MORDRED", "MORGANA"}
    [] self = "PERCIVAL" -> other_role \in {"MERLIN", "MORGANA"}
    [] self \in {"ASSASSIN", "MORGANA", "MINION", "MORDRED"} -> RoleTeam(other_role) = "EVIL"
    [] OTHER             -> FALSE

\* Faulty variant of can_see: Morgana sees Percival, who sees her.
can_see_Percival(self, other_role) ==
  CASE self = "MERLIN"   -> RoleTeam(other_role) = "EVIL" /\ other_role \notin {"MORDRED", "MORGANA"}
    [] self = "PERCIVAL" -> other_role \in {"MERLIN", "MORGANA"}
    [] self = "MORGANA"  -> \/ RoleTeam(other_role) = "EVIL" /\ other_role # "OBERON"
                            \/ other_role = "PERCIVAL"
    [] self \in {"ASSASSIN", "MINION", "MORDRED"} ->
         RoleTeam(other_role) = "EVIL" /\ other_role # "OBERON"
    [] OTHER             -> FALSE

\* Role.can_see(self, other_role)
can_see(self, other_role) ==
  CASE self = "MERLIN"   -> RoleTeam(other_role) = "EVIL" /\ other_role \notin {"MORDRED", "MORGANA"}
    [] self = "PERCIVAL" -> other_role \in {"MERLIN", "MORGANA"}
    [] self = "ASSASSIN" -> RoleTeam(other_role) = "EVIL" /\ other_role # "OBERON"
    [] self = "MORGANA"  -> RoleTeam(other_role) = "EVIL" /\ other_role # "OBERON"
    [] self = "MINION"   -> RoleTeam(other_role) = "EVIL" /\ other_role # "OBERON"
    [] self = "MORDRED"  -> RoleTeam(other_role) = "EVIL" /\ other_role # "OBERON"
    [] self = "OBERON"   -> FALSE
    [] OTHER             -> FALSE

get_standard_roles(player_count) ==
  CASE player_count = 5  -> <<"MERLIN", "ASSASSIN", "SERVANT", "MORGANA", "PERCIVAL">>
    [] player_count = 6  -> <<"MERLIN", "ASSASSIN", "PERCIVAL", "SERVANT", "SERVANT", "MORGANA">>
    [] player_count = 7  -> <<"MERLIN", "ASSASSIN", "PERCIVAL", "MORGANA", "SERVANT", "SERVANT",
                              "MINION">>
    [] player_count = 8  -> <<"MERLIN", "ASSASSIN", "PERCIVAL", "MORGANA", "SERVANT", "SERVANT",
                              "SERVANT", "MINION">>
    [] player_count = 9  -> <<"MERLIN", "ASSASSIN", "PERCIVAL", "MORGANA", "MORDRED", "SERVANT",
                              "SERVANT", "SERVANT", "MINION">>
    [] player_count = 10 -> <<"MERLIN", "ASSASSIN", "PERCIVAL", "MORGANA", "MORDRED", "OBERON",
                              "SERVANT", "SERVANT", "SERVANT", "MINION">>
    [] OTHER             -> <<"MERLIN", "ASSASSIN", "SERVANT", "MORGANA", "PERCIVAL">>

(* ------------------------------------------------------------------ *)
(* game_engine.py: GameState                                           *)
(* ------------------------------------------------------------------ *)

VARIABLES
  player_count,          \* GameEngine.player_count
  players,               \* players[i+1] is the role_type of the player with id i
  current_phase,
  current_round,
  current_leader,
  mission_results,
  proposed_team,
  votes,                 \* dict player id -> approve
  vote_round,
  successful_missions,
  failed_missions,
  game_over,
  winner,                \* "NONE" (None), "GOOD" or "EVIL"
  assassination_target,  \* NoTarget (None) or the id given to assassinate
  called,                \* the action method called last
  returned,              \* what it returned ("raise": it raised)
  request,               \* app.py: per request thread, where its handler stands
  dispatched,            \* app.py: the number of phase handlers started
  overlaps               \* those started while another request was being served

state ==
  << player_count, players, current_phase, current_round, current_leader, mission_results,
     proposed_team, votes, vote_round, successful_missions, failed_missions,
     game_over, winner, assassination_target >>

\* The request threads of the web server (app.py)
web == << request, dispatched, overlaps >>

vars == << state, called, returned, web >>

\* Two requests are served at a time
Threads == {"first", "second"}

\* A thread that serves no request
IdleRequest ==
  [ pc |-> "idle", kind |-> "none", phase |-> "none", leader_id |-> 0, team |-> << >>,
    agent |-> 0, round_count |-> 0 ]

\* GameState.assassination_target = None
NoTarget == -1

\* len(self.state.players)
N == Len(players)

\* {p.player_id for p in self.state.players}
valid_player_ids == 0 .. (N - 1)

\* self.state.mission_configs, set once by _initialize_game
mission_configs == get_mission_configs(player_count)

\* votes = {}
EmptyVotes == [p \in {} |-> TRUE]

\* random.shuffle(roles): a permutation of the roles, here a rotation by k seats
Rotate(s, k) == [i \in 1 .. Len(s) |-> s[((i - 1 + k) % Len(s)) + 1]]

Min(a, b) == IF a < b THEN a ELSE b

\* RoleDistributor.distribute_roles(player_count, player_names), names the
\* number of player_names: zip(player_names, roles) stops at the shorter list
distribute_roles(count, names, rotations) ==
  { SubSeq(Rotate(get_standard_roles(count), k), 1,
           Min(names, Len(get_standard_roles(count)))) : k \in rotations }

\* GameEngine.__init__ / _initialize_players / _initialize_game, one name per
\* player
NewGame(player_counts, rotations) ==
  /\ player_count \in player_counts
  /\ players \in distribute_roles(player_count, player_count, rotations)
  /\ current_phase = "DISCUSSION"
  /\ current_round = 1
  /\ current_leader = 0
  /\ mission_results = << >>
  /\ proposed_team = << >>
  /\ votes = EmptyVotes
  /\ vote_round = 0
  /\ successful_missions = 0
  /\ failed_missions = 0
  /\ game_over = FALSE
  /\ winner = "NONE"
  /\ assassination_target = NoTarget
  /\ called = "__init__"
  /\ returned = "None"
  /\ request = [t \in Threads |-> IdleRequest]
  /\ dispatched = 0
  /\ overlaps = 0

\* Spec deals the roles in the order of get_standard_roles (Merlin in seat 0).
Init == NewGame(MinPlayers .. MaxPlayers, {0})

(* ------------------------------------------------------------------ *)
(* game_engine.py: WinConditionChecker                                 *)
(* ------------------------------------------------------------------ *)

\* The GameState read by check_game_over
GameState ==
  [ players |-> players, mission_configs |-> mission_configs, current_phase |-> current_phase, current_round |-> current_round,
    vote_round |-> vote_round, successful_missions |-> successful_missions,
    failed_missions |-> failed_missions, assassination_target |-> assassination_target ]

Verdict(raised, over, team) == [raised |-> raised, game_over |-> over, winner |-> team]

\* Faulty variant of check_game_over: the role test of the assassination is
\* inverted (EVIL wins when the target is not Merlin).
check_game_over_Inverted(st) ==
  IF st.successful_missions >= 3
  THEN IF st.current_phase = "ASSASSINATION"
       THEN IF st.assassination_target # NoTarget
            THEN IF st.assassination_target \notin 0 .. (Len(st.players) - 1)
                 THEN Verdict(TRUE, FALSE, "NONE")
                 ELSE IF st.players[st.assassination_target + 1] # "MERLIN"
                      THEN Verdict(FALSE, TRUE, "EVIL")
                      ELSE Verdict(FALSE, TRUE, "GOOD")
            ELSE Verdict(FALSE, FALSE, "NONE")
       ELSE Verdict(FALSE, FALSE, "NONE")
  ELSE IF st.failed_missions >= 3
       THEN Verdict(FALSE, TRUE, "EVIL")
       ELSE IF st.vote_round >= 5 /\ st.current_round < Len(st.mission_configs)
            THEN Verdict(FALSE, TRUE, "EVIL")
            ELSE Verdict(FALSE, FALSE, "NONE")

\* WinConditionChecker.check_game_over(state): (game_over, winner), or raised when
\* next(p for p in players if p.player_id == target) finds no player
check_game_over(st) ==
  IF st.successful_missions >= 3
  THEN IF st.current_phase = "ASSASSINATION"
       THEN IF st.assassination_target # NoTarget
            THEN IF st.assassination_target \notin 0 .. (Len(st.players) - 1)
                 THEN Verdict(TRUE, FALSE, "NONE")
                 ELSE IF st.players[st.assassination_target + 1] = "MERLIN"
                      THEN Verdict(FALSE, TRUE, "EVIL")
                      ELSE Verdict(FALSE, TRUE, "GOOD")
            ELSE Verdict(FALSE, FALSE, "NONE")
       ELSE Verdict(FALSE, FALSE, "NONE")
  ELSE IF st.failed_missions >= 3
       THEN Verdict(FALSE, TRUE, "EVIL")
       ELSE IF st.vote_round >= 5 /\ st.current_round < Len(st.mission_configs)
            THEN Verdict(FALSE, TRUE, "EVIL")
            ELSE Verdict(FALSE, FALSE, "NONE")

(* ------------------------------------------------------------------ *)
(* game_engine.py: GameEngine, the five action methods                 *)
(* ------------------------------------------------------------------ *)

\* return False before any assignment to self.state
Rejected(method) ==
  /\ called' = method
  /\ returned' = "False"
  /\ UNCHANGED state

\* propose_team: leader_id != self.state.current_leader
IsCurrentLeader(leader_id) == leader_id = current_leader

\* Faulty variant of TeamSizeOk: the size of the team is not tested.
TeamSizeOk_Untested(team_members) == TRUE

\* Faulty variant of TeamSizeOk: a team larger than the round's size is accepted.
TeamSizeOk_AtLeast(team_members) ==
  Len(team_members) >= mission_configs[current_round].team_size

\* propose_team: len(team_members) != current_config.team_size
TeamSizeOk(team_members) ==
  Len(team_members) = mission_configs[current_round].team_size

\* propose_team: all(mid in valid_player_ids for mid in team_members)
MembersValid(team_members) ==
  \A i \in 1 .. Len(team_members) : team_members[i] \in valid_player_ids

propose_team(leader_id, team_members) ==
  IF ~IsCurrentLeader(leader_id) THEN Rejected("propose_team")
  ELSE IF ~TeamSizeOk(team_members) THEN Rejected("propose_team")
  ELSE IF ~MembersValid(team_members) THEN Rejected("propose_team")
  ELSE /\ proposed_team' = team_members
       /\ current_phase' = "VOTING"
       /\ called' = "propose_team"
       /\ returned' = "True"
       /\ UNCHANGED << player_count, players, current_round, current_leader, mission_results, votes,
                       vote_round, successful_missions, failed_missions, game_over,
                       winner, assassination_target >>

\* Faulty variant of AlreadyVoted: the second vote is not noticed.
AlreadyVoted_Never(player_id) == FALSE

\* vote_on_team: player_id in self.state.votes
AlreadyVoted(player_id) == player_id \in DOMAIN votes

vote_on_team(player_id, approve) ==
  IF current_phase # "VOTING" THEN Rejected("vote_on_team")
  ELSE IF AlreadyVoted(player_id) THEN Rejected("vote_on_team")
  ELSE /\ votes' = [p \in DOMAIN votes \cup {player_id} |->
                      IF p = player_id THEN approve ELSE votes[p]]
       /\ called' = "vote_on_team"
       /\ returned' = "True"
       /\ UNCHANGED << player_count, players, current_phase, current_round, current_leader,
                       mission_results, proposed_team, vote_round, successful_missions,
                       failed_missions, game_over, winner, assassination_target >>

\* sum(1 for v in self.state.votes.values() if v)
approve_count == Cardinality({p \in DOMAIN votes : votes[p]})

\* len(self.state.votes) - approve_count
reject_count == Cardinality(DOMAIN votes) - approve_count

\* process_voting_result: len(self.state.votes) < len(self.state.players)
VotingComplete == ~(Cardinality(DOMAIN votes) < N)

\* Faulty variant of VotePassed: an equal split passes.
VotePassed_WithTie(approves, rejects) == approves >= rejects

\* passed = approve_count > reject_count
VotePassed(approves, rejects) == approves > rejects

\* Faulty variant of StalemateReached: the game ends one rejection late.
StalemateReached_Late(rejections) == rejections > 5

\* process_voting_result: self.state.vote_round >= 5
StalemateReached(rejections) == rejections >= 5

\* Faulty variant of NextLeader: the last seat is followed by no seat.
NextLeader_NoWrap(leader) == leader + 1

\* (self.state.current_leader + 1) % len(self.state.players)
NextLeader(leader) == (leader + 1) % N

process_voting_result ==
  IF ~VotingComplete
  THEN /\ called' = "process_voting_result"
       /\ returned' = "(False, False)"
       /\ UNCHANGED state
  ELSE IF VotePassed(approve_count, reject_count)
  THEN /\ current_phase' = "MISSION"
       /\ vote_round' = 0
       /\ called' = "process_voting_result"
       /\ returned' = "(True, True)"
       /\ UNCHANGED << player_count, players, current_round, current_leader, mission_results,
                       proposed_team, votes, successful_missions, failed_missions,
                       game_over, winner, assassination_target >>
  ELSE /\ vote_round' = vote_round + 1
       /\ called' = "process_voting_result"
       /\ returned' = "(True, False)"
       /\ IF StalemateReached(vote_round + 1)
          THEN /\ game_over' = TRUE
               /\ winner' = "EVIL"
               /\ current_phase' = "FINISHED"
               /\ UNCHANGED << current_leader, votes >>
          ELSE /\ current_leader' = NextLeader(current_leader)
               /\ current_phase' = "DISCUSSION"
               /\ votes' = EmptyVotes
               /\ UNCHANGED << game_over, winner >>
       /\ UNCHANGED << player_count, players, current_round, mission_results, proposed_team,
                       successful_missions, failed_missions, assassination_target >>

\* set(self.state.proposed_team)
TeamSet == {proposed_team[i] : i \in 1 .. Len(proposed_team)}

\* Faulty variant of KeysMatchTeam: a missing member's vote is not noticed.
KeysMatchTeam_Subset(mission_votes) == DOMAIN mission_votes \subseteq TeamSet

\* submit_mission_result: set(mission_votes.keys()) != set(self.state.proposed_team)
KeysMatchTeam(mission_votes) == DOMAIN mission_votes = TeamSet

\* fail_count = sum(1 for v in mission_votes.values() if not v)
FailCount(mission_votes) == Cardinality({m \in DOMAIN mission_votes : ~mission_votes[m]})

\* Faulty variant of MissionSuccess: one fail vote always fails the mission.
MissionSuccess_NoFails(fail_count, fails_needed) == fail_count < 1

\* success = fail_count < current_config.fails_needed
MissionSuccess(fail_count, fails_needed) == fail_count < fails_needed

\* Faulty variant of ReachedThree: a tally ends the missions at 4.
ReachedThree_Four(count) == count >= 4

\* submit_mission_result: successful_missions >= 3 / failed_missions >= 3
ReachedThree(count) == count >= 3

\* Faulty variant of Tally: the tally is raised whatever the outcome.
Tally_Always(count, counted) == count + 1

\* submit_mission_result: if success: successful_missions += 1, else:
\* failed_missions += 1; the tally count after a mission that is counted or not
Tally(count, counted) == IF counted THEN count + 1 ELSE count

MissionResult(mission_votes) ==
  [ round_number |-> current_round,
    team_members |-> proposed_team,
    votes        |-> mission_votes,
    success      |-> MissionSuccess(FailCount(mission_votes),
                                    mission_configs[current_round].fails_needed),
    fail_count   |-> FailCount(mission_votes) ]

\* Faulty variant of RecordResult: the new result takes the place of the last.
RecordResult_Overwrite(results, result) ==
  IF results = << >> THEN << result >>
  ELSE [results EXCEPT ![Len(results)] = result]

\* self.state.mission_results.append(mission_result)
RecordResult(results, result) == Append(results, result)

submit_mission_result(mission_votes) ==
  IF current_phase # "MISSION" THEN Rejected("submit_mission_result")
  ELSE IF ~KeysMatchTeam(mission_votes) THEN Rejected("submit_mission_result")
  ELSE LET result == MissionResult(mission_votes)
           succ   == Tally(successful_missions, result.success)
           fail   == Tally(failed_missions, ~result.success)
       IN /\ mission_results' = RecordResult(mission_results, result)
          /\ successful_missions' = succ
          /\ failed_missions' = fail
          /\ called' = "submit_mission_result"
          /\ returned' = "True"
          /\ IF ReachedThree(succ)
             THEN /\ current_phase' = "ASSASSINATION"
                  /\ vote_round' = 0
                  /\ UNCHANGED << current_round, current_leader, proposed_team, votes,
                                  game_over, winner >>
             ELSE IF ReachedThree(fail)
             THEN /\ game_over' = TRUE
                  /\ winner' = "EVIL"
                  /\ current_phase' = "FINISHED"
                  /\ UNCHANGED << current_round, current_leader, proposed_team, votes,
                                  vote_round >>
             ELSE /\ current_round' = current_round + 1
                  /\ IF current_round + 1 > Len(mission_configs)
                     THEN /\ game_over' = TRUE
                          /\ winner' = IF succ > fail THEN "GOOD" ELSE "EVIL"
                          /\ current_phase' = "FINISHED"
                          /\ UNCHANGED << current_leader, proposed_team, votes, vote_round >>
                     ELSE /\ current_leader' = NextLeader(current_leader)
                          /\ current_phase' = "DISCUSSION"
                          /\ proposed_team' = << >>
                          /\ votes' = EmptyVotes
                          /\ vote_round' = 0
                          /\ UNCHANGED << game_over, winner >>
          /\ UNCHANGED << player_count, players, assassination_target >>

assassinate(target_player_id) ==
  IF current_phase # "ASSASSINATION" THEN Rejected("assassinate")
  ELSE LET verdict == check_game_over([GameState EXCEPT
                                         !.assassination_target = target_player_id])
       IN /\ assassination_target' = target_player_id
          /\ called' = "assassinate"
          /\ IF verdict.raised
             THEN /\ returned' = "raise"
                  /\ UNCHANGED << game_over, winner, current_phase >>
             ELSE /\ returned' = "True"
                  /\ IF verdict.game_over
                     THEN /\ game_over' = TRUE
                          /\ winner' = verdict.winner
                          /\ current_phase' = "FINISHED"
                     ELSE UNCHANGED << game_over, winner, current_phase >>
          /\ UNCHANGED << player_count, players, current_round, current_leader, mission_results,
                          proposed_team, votes, vote_round, successful_missions,
                          failed_missions >>

(* ------------------------------------------------------------------ *)
(* The callers' arguments                                              *)
(* ------------------------------------------------------------------ *)

\* An id that names no player
UnknownId == N

FirstIds(k) == [i \in 1 .. k |-> i - 1]

\* leader_id: the current leader and the next seat
LeaderInputs == {current_leader, (current_leader + 1) % N}

\* team_members: the first seats (right size), one seat too many, an unknown id
TeamInputs ==
  LET k == mission_configs[current_round].team_size
  IN { FirstIds(k), FirstIds(k + 1), [FirstIds(k) EXCEPT ![k] = UnknownId] }

\* (leader_id, team_members): the current leader with every team, the next seat
\* with the right team
ProposeInputs ==
  ({current_leader} \X TeamInputs)
    \cup {<<(current_leader + 1) % N, FirstIds(mission_configs[current_round].team_size)>>}

\* (player_id, approve): the players vote in seat order, as the orchestrator asks
\* them (main.py, _handle_voting_phase), the approving ones first; the first and
\* the last player who voted vote again
VoteInputs ==
  LET voted     == DOMAIN votes \cap valid_player_ids
      nextSeat  == {p \in valid_player_ids :
                      /\ p \notin DOMAIN votes
                      /\ \A q \in valid_player_ids : q < p => q \in DOMAIN votes}
      firstVote == {<<p, a>> \in nextSeat \X BOOLEAN :
                      a => \A q \in DOMAIN votes : votes[q]}
  IN firstVote \cup ({p \in voted : (\A q \in voted : p <= q) \/ (\A q \in voted : p >= q)}
                     \X BOOLEAN)

\* mission_votes keyed by keys, the f lowest ids voting fail
MissionVotes(keys, f) ==
  [m \in keys |-> ~(Cardinality({x \in keys : x < m}) < f)]

\* mission_votes: the team's votes with 0..fails_needed fail votes; the votes
\* with one member missing and with one extra player
MissionVoteInputs ==
  { MissionVotes(TeamSet, f) : f \in 0 .. mission_configs[current_round].fails_needed }
    \cup { MissionVotes(TeamSet \ {0}, 0), MissionVotes(TeamSet \cup {N - 1}, 0) }

\* target_player_id: the first and the last seat, and an id that names no player
TargetInputs == {0, N - 1, UnknownId}

Next ==
  \/ \E input \in ProposeInputs : propose_team(input[1], input[2]) /\ UNCHANGED web
  \/ \E input \in VoteInputs : vote_on_team(input[1], input[2]) /\ UNCHANGED web
  \/ vote_round < VoteRoundCap /\ process_voting_result /\ UNCHANGED web
  \/ \E mission_votes \in MissionVoteInputs :
       /\ Len(mission_results) < MissionCap /\ submit_mission_result(mission_votes)
       /\ UNCHANGED web
  \/ \E target_player_id \in TargetInputs : assassinate(target_player_id) /\ UNCHANGED web

Spec == Init /\ [][Next]_vars

(* ------------------------------------------------------------------ *)
(* The orchestrator's calls (main.py, AvalonGame.run_game): while the  *)
(* game is not over, the handler of the current phase calls the engine *)
(* ------------------------------------------------------------------ *)

InitPlay == NewGame(MinPlayers .. MaxPlayersPlay, 0 .. MaxRotation)

\* _handle_discussion_phase: the leader's proposal
PlayTeams == { FirstIds(mission_configs[current_round].team_size) }

\* _handle_voting_phase: every agent votes once, in seat order (approvals first)
PlayVotes ==
  {<<p, a>> \in valid_player_ids \X BOOLEAN :
     /\ p \notin DOMAIN votes
     /\ \A q \in valid_player_ids : q < p => q \in DOMAIN votes
     /\ a => \A q \in DOMAIN votes : votes[q]}

\* _handle_mission_phase: one vote per team member, 0..fails_needed of them fail
PlayMissionVotes ==
  { MissionVotes(TeamSet, f) : f \in 0 .. mission_configs[current_round].fails_needed }

NextPlay ==
  \/ /\ ~game_over /\ current_phase = "DISCUSSION"
     /\ \E team_members \in PlayTeams : propose_team(current_leader, team_members)
     /\ UNCHANGED web
  \/ /\ ~game_over /\ current_phase = "VOTING"
     /\ \E input \in PlayVotes : vote_on_team(input[1], input[2])
     /\ UNCHANGED web
  \/ /\ ~game_over /\ current_phase = "VOTING" /\ PlayVotes = {}
     /\ process_voting_result
     /\ UNCHANGED web
  \/ /\ ~game_over /\ current_phase = "MISSION"
     /\ \E mission_votes \in PlayMissionVotes : submit_mission_result(mission_votes)
     /\ UNCHANGED web
  \/ /\ ~game_over /\ current_phase = "ASSASSINATION"
     /\ \E target_player_id \in valid_player_ids : assassinate(target_player_id)
     /\ UNCHANGED web

SpecPlay == InitPlay /\ [][NextPlay]_vars

\* run_game calls the handler of the current phase again and again while the
\* game is not over (main.py 92-113): a call that can be made is made
SpecPlayFair == InitPlay /\ [][NextPlay]_vars /\ WF_vars(NextPlay)

(* ------------------------------------------------------------------ *)
(* A caller whose arguments are always well formed (the leader's team  *)
(* of the round's size, one vote per player, the team's mission votes, *)
(* a player as target) but who calls in any phase and after game_over  *)
(* ------------------------------------------------------------------ *)

NextWellFormed ==
  \/ \E team_members \in PlayTeams :
       propose_team(current_leader, team_members) /\ UNCHANGED web
  \/ \E input \in PlayVotes : vote_on_team(input[1], input[2]) /\ UNCHANGED web
  \/ vote_round < VoteRoundCap /\ process_voting_result /\ UNCHANGED web
  \/ \E mission_votes \in PlayMissionVotes :
       /\ Len(mission_results) < MissionCapWellFormed
       /\ submit_mission_result(mission_votes)
       /\ UNCHANGED web
  \/ \E target_player_id \in {0, N - 1} : assassinate(target_player_id) /\ UNCHANGED web

SpecWellFormed == Init /\ [][NextWellFormed]_vars

(* ------------------------------------------------------------------ *)
(* A caller who lets anybody vote: the votes come in any order, from   *)
(* the players and from an id that names no player                     *)
(* ------------------------------------------------------------------ *)

NextAnyVoter ==
  \/ \E team_members \in PlayTeams :
       propose_team(current_leader, team_members) /\ UNCHANGED web
  \/ \E player_id \in valid_player_ids \cup {UnknownId}, approve \in BOOLEAN :
       vote_on_team(player_id, approve) /\ UNCHANGED web
  \/ vote_round < VoteRoundCap /\ process_voting_result /\ UNCHANGED web
  \/ \E mission_votes \in PlayMissionVotes :
       /\ Len(mission_results) < MissionCapAnyVoter
       /\ submit_mission_result(mission_votes)
       /\ UNCHANGED web
  \/ \E target_player_id \in {0, N - 1} : assassinate(target_player_id) /\ UNCHANGED web

SpecAnyVoter == Init /\ [][NextAnyVoter]_vars

(* ------------------------------------------------------------------ *)
(* A caller whose leader may name a player twice in the team: the team *)
(* of the round's size, or that team with its last member replaced by  *)
(* its first                                                           *)
(* ------------------------------------------------------------------ *)

\* team_members: the first seats, and the same with the first seat named twice
RepeatedMemberTeams ==
  LET k == mission_configs[current_round].team_size
  IN { FirstIds(k), [FirstIds(k) EXCEPT ![k] = 0] }

NextRepeatedMember ==
  \/ /\ ~game_over /\ current_phase = "DISCUSSION"
     /\ \E team_members \in RepeatedMemberTeams :
          propose_team(current_leader, team_members)
     /\ UNCHANGED web
  \/ /\ ~game_over /\ current_phase = "VOTING"
     /\ \E input \in PlayVotes : vote_on_team(input[1], input[2])
     /\ UNCHANGED web
  \/ /\ ~game_over /\ current_phase = "VOTING" /\ PlayVotes = {}
     /\ process_voting_result
     /\ UNCHANGED web
  \/ /\ ~game_over /\ current_phase = "MISSION"
     /\ Len(mission_results) < MissionCapRepeatedMember
     /\ \E mission_votes \in PlayMissionVotes : submit_mission_result(mission_votes)
     /\ UNCHANGED web

SpecRepeatedMember == Init /\ [][NextRepeatedMember]_vars

(* ------------------------------------------------------------------ *)
(* Construction (GameEngine.__init__, AvalonGame.__init__) and the     *)
(* private information of a player (InformationFilter)                 *)
(* ------------------------------------------------------------------ *)

\* No engine has been constructed: the fields of GameState() (game_engine.py
\* 38-53); player_count 0 stands for the attribute not being set
NoGame ==
  /\ player_count = 0
  /\ players = << >>
  /\ current_phase = "INITIALIZATION"
  /\ current_round = 0
  /\ current_leader = 0
  /\ mission_results = << >>
  /\ proposed_team = << >>
  /\ votes = EmptyVotes
  /\ vote_round = 0
  /\ successful_missions = 0
  /\ failed_missions = 0
  /\ game_over = FALSE
  /\ winner = "NONE"
  /\ assassination_target = NoTarget
  /\ called = "none"
  /\ returned = "None"
  /\ request = [t \in Threads |-> IdleRequest]
  /\ dispatched = 0
  /\ overlaps = 0

\* GameEngine(player_count, player_names) with names player_names, called by
\* caller: _initialize_players, _initialize_game
GameEngine_init(caller, count, names) ==
  /\ player_count' = count
  /\ players' \in distribute_roles(count, names, 0 .. MaxRotation)
  /\ current_phase' = "DISCUSSION"
  /\ current_round' = 1
  /\ current_leader' = 0
  /\ vote_round' = 0
  /\ called' = caller
  /\ returned' = "None"
  /\ UNCHANGED << mission_results, proposed_team, votes, successful_missions,
                  failed_missions, game_over, winner, assassination_target >>

\* AvalonGame(player_count, player_names): raise ValueError when the number of
\* names is not player_count, else build the engine
AvalonGame_init(count, names) ==
  IF names # count
  THEN /\ called' = "AvalonGame"
       /\ returned' = "raise"
       /\ UNCHANGED state
  ELSE GameEngine_init("AvalonGame", count, names)

\* player_count and len(player_names) given to the constructors: the supported
\* counts and one below and above them
SetupCounts == (MinPlayers - 1) .. (MaxPlayersPlay + 1)

\* The entries of get_private_info; a role and a team are written by the name
\* of the enum member, None as "None"; a player's name is an input string, here
\* the seat
SelfEntry(p) ==
  [ player_id |-> p, name |-> p, is_self |-> TRUE,
    role |-> players[p + 1], team |-> RoleTeam(players[p + 1]) ]

\* Faulty variant of PercivalEntry: the entry carries the other player's team.
PercivalEntry_WithTeam(p) ==
  [ player_id |-> p, name |-> p, is_self |-> FALSE,
    possible_merlin |-> TRUE, team |-> RoleTeam(players[p + 1]) ]

\* what Percival is told about a visible other player
PercivalEntry(p) ==
  [ player_id |-> p, name |-> p, is_self |-> FALSE,
    possible_merlin |-> TRUE, team |-> "None" ]

\* Faulty variant of TeamEntry: the entry carries the other player's role.
TeamEntry_WithRole(p) ==
  [ player_id |-> p, name |-> p, is_self |-> FALSE,
    team |-> RoleTeam(players[p + 1]), role |-> players[p + 1] ]

\* what any other role is told about a visible other player
TeamEntry(p) ==
  [ player_id |-> p, name |-> p, is_self |-> FALSE,
    team |-> RoleTeam(players[p + 1]), role |-> "None" ]

\* the entry of a player who is not visible
HiddenEntry(p) ==
  [ player_id |-> p, name |-> p, is_self |-> FALSE, team |-> "None", role |-> "None" ]

\* InformationFilter.get_visible_players(player, all_players): the player, then
\* the others the player's role can see, in seat order
get_visible_players(player_id) ==
  << player_id >> \o
    SelectSeq(FirstIds(N),
              LAMBDA other : /\ other # player_id
                             /\ can_see(players[player_id + 1], players[other + 1]))

\* the entry built for a visible player (game_engine.py 106-133, 143-167)
VisibleEntry(player_id, p) ==
  IF p = player_id THEN SelfEntry(p)
  ELSE IF players[player_id + 1] = "PERCIVAL" THEN PercivalEntry(p)
  ELSE TeamEntry(p)

\* InformationFilter.get_private_info(player, all_players)
get_private_info(player_id) ==
  LET visible_players == get_visible_players(player_id)
      visible_ids     == {visible_players[i] : i \in 1 .. Len(visible_players)}
  IN [ my_role         |-> players[player_id + 1],
       my_team         |-> RoleTeam(players[player_id + 1]),
       visible_players |-> [i \in 1 .. Len(visible_players) |->
                              VisibleEntry(player_id, visible_players[i])],
       all_players     |-> [i \in 1 .. N |->
                              IF (i - 1) \in visible_ids
                              THEN VisibleEntry(player_id, i - 1)
                              ELSE HiddenEntry(i - 1)],
       total_players   |-> N ]

\* GameEngine.get_player_info(player_id), player_id a player
get_player_info(player_id) ==
  /\ called' = "get_player_info"
  /\ returned' = get_private_info(player_id)
  /\ UNCHANGED state

\* get_role(self).can_see(get_role(other_role)) for two role types, as
\* get_visible_players asks it (game_engine.py 90)
Role_can_see(self, other_role) ==
  /\ called' = "can_see"
  /\ returned' = [ self |-> self, other_role |-> other_role,
                   visible |-> can_see(self, other_role) ]
  /\ UNCHANGED state

\* The constructors are called once, then the players' private information is
\* read (AvalonGame._initialize_agents) and the roles are asked whom they see
NextSetup ==
  \/ /\ players = << >>
     /\ \E count \in SetupCounts, names \in SetupCounts :
          GameEngine_init("GameEngine", count, names)
     /\ UNCHANGED web
  \/ /\ players = << >>
     /\ \E count \in SetupCounts, names \in SetupCounts : AvalonGame_init(count, names)
     /\ UNCHANGED web
  \/ \E player_id \in valid_player_ids : get_player_info(player_id) /\ UNCHANGED web
  \/ \E self \in RoleType, other_role \in RoleType :
       Role_can_see(self, other_role) /\ UNCHANGED web

SpecSetup == NoGame /\ [][NextSetup]_vars

(* ------------------------------------------------------------------ *)
(* The web server (app.py): execute_game_step handles the current      *)
(* phase once, auto_play_game handles phases until the game is over.   *)
(* Flask serves each request on a thread of its own; both read games   *)
(* [game_id] and call the handlers of AvalonGame with no lock. A step  *)
(* of the model is one engine call of one request, or the reads that   *)
(* come before a handler's first engine call.                          *)
(* ------------------------------------------------------------------ *)

\* auto_play_game: max_rounds
max_rounds == 20

\* The handler of the phase starts: what it reads before its first engine call
\* (the leader and the team the leader's agent proposes, the voting leader, the
\* mission team)
HandlerReads(t, kind, rounds) ==
  /\ current_phase \in {"DISCUSSION", "VOTING", "MISSION", "ASSASSINATION"}
  /\ \E team_members \in PlayTeams :
       request' = [request EXCEPT ![t] =
         [ pc          |-> CASE current_phase = "DISCUSSION" -> "propose"
                             [] current_phase = "VOTING"     -> "vote"
                             [] current_phase = "MISSION"    -> "submit"
                             [] OTHER                        -> "assassinate",
           kind        |-> kind,
           phase       |-> current_phase,
           leader_id   |-> current_leader,
           team        |-> CASE current_phase = "DISCUSSION" -> team_members
                             [] current_phase = "MISSION"    -> proposed_team
                             [] OTHER                        -> << >>,
           agent       |-> 0,
           round_count |-> rounds ]]

\* A request of the web server starts the handler of the phase; the model counts
\* the handlers started, and those started while another request is served
Dispatch(t, kind, rounds) ==
  /\ dispatched < DispatchCap
  /\ dispatched' = dispatched + 1
  /\ IF \E u \in Threads \ {t} : request[u].pc # "idle"
     THEN overlaps < OverlapCap /\ overlaps' = overlaps + 1
     ELSE overlaps' = overlaps
  /\ HandlerReads(t, kind, rounds)

\* execute_game_step (app.py 229-290): a request for a game that is not over
\* starts the handler of the current phase
StepEnter(t) ==
  /\ request[t].pc = "idle"
  /\ ~game_over
  /\ Dispatch(t, "step", 0)
  /\ UNCHANGED << state, called, returned >>

\* auto_play_game (app.py 357-395): the head of the loop, for a new request and
\* after each handler
AutoEnter(t) ==
  /\ request[t].pc \in {"idle", "loop"}
  /\ request[t].pc = "idle" => ~game_over
  /\ UNCHANGED << called, returned >>
  /\ IF game_over \/ ~(request[t].round_count < max_rounds)
     THEN /\ request' = [request EXCEPT ![t] = IdleRequest]
          /\ UNCHANGED << state, dispatched, overlaps >>
     ELSE IF check_game_over(GameState).game_over
     THEN /\ game_over' = TRUE
          /\ winner' = check_game_over(GameState).winner
          /\ current_phase' = "FINISHED"
          /\ request' = [request EXCEPT ![t] = IdleRequest]
          /\ UNCHANGED << player_count, players, current_round, current_leader,
                          mission_results, proposed_team, votes, vote_round,
                          successful_missions, failed_missions, assassination_target,
                          dispatched, overlaps >>
     ELSE /\ Dispatch(t, "auto", request[t].round_count + 1)
          /\ UNCHANGED state

\* Where a request goes after the handler of phase: execute_game_step checks the
\* game (app.py 297-302), auto_play_game checks it after a mission, ends after an
\* assassination and loops otherwise
AfterHandler(t) ==
  request' = [request EXCEPT ![t].pc =
    IF request[t].kind = "step" THEN "check"
    ELSE CASE request[t].phase = "MISSION"       -> "check"
           [] request[t].phase = "ASSASSINATION" -> "idle"
           [] OTHER                              -> "loop"]

\* _handle_discussion_phase: self.engine.propose_team(leader_id, proposed_team)
HandleDiscussion(t) ==
  /\ request[t].pc = "propose"
  /\ propose_team(request[t].leader_id, request[t].team)
  /\ AfterHandler(t)
  /\ UNCHANGED << dispatched, overlaps >>

\* _handle_voting_phase: the next agent's vote, True for the leader
HandleVote(t) ==
  /\ request[t].pc = "vote"
  /\ \E vote \in (IF request[t].agent = request[t].leader_id THEN {TRUE} ELSE BOOLEAN) :
       vote_on_team(request[t].agent, vote)
  /\ request' = [request EXCEPT ![t].agent = @ + 1,
                                ![t].pc = IF request[t].agent + 1 < N THEN "vote"
                                          ELSE "resolve"]
  /\ UNCHANGED << dispatched, overlaps >>

\* _handle_voting_phase: self.engine.process_voting_result()
HandleResolve(t) ==
  /\ request[t].pc = "resolve"
  /\ process_voting_result
  /\ AfterHandler(t)
  /\ UNCHANGED << dispatched, overlaps >>

\* _handle_mission_phase: the votes of the agents on mission_team, submitted
HandleMission(t) ==
  /\ request[t].pc = "submit"
  /\ \E f \in 0 .. mission_configs[current_round].fails_needed :
       submit_mission_result(
         MissionVotes({request[t].team[i] : i \in 1 .. Len(request[t].team)}, f))
  /\ AfterHandler(t)
  /\ UNCHANGED << dispatched, overlaps >>

\* _handle_assassination_phase: the assassin's agent names a player
HandleAssassination(t) ==
  /\ request[t].pc = "assassinate"
  /\ \E target_player_id \in valid_player_ids : assassinate(target_player_id)
  /\ AfterHandler(t)
  /\ UNCHANGED << dispatched, overlaps >>

\* check_game_over after the handler, written to the state when the game is over
CheckGame(t) ==
  /\ request[t].pc = "check"
  /\ UNCHANGED << called, returned, dispatched, overlaps >>
  /\ IF check_game_over(GameState).game_over
     THEN /\ game_over' = TRUE
          /\ winner' = check_game_over(GameState).winner
          /\ current_phase' = "FINISHED"
          /\ request' = [request EXCEPT ![t] = IdleRequest]
          /\ UNCHANGED << player_count, players, current_round, current_leader,
                          mission_results, proposed_team, votes, vote_round,
                          successful_missions, failed_missions, assassination_target >>
     ELSE /\ request' = [request EXCEPT ![t] =
                           IF request[t].kind = "step" THEN IdleRequest
                           ELSE [request[t] EXCEPT !.pc = "loop"]]
          /\ UNCHANGED state

NextWeb ==
  \/ \E t \in Threads : StepEnter(t)
  \/ \E t \in Threads : AutoEnter(t)
  \/ \E t \in Threads : HandleDiscussion(t)
  \/ \E t \in Threads : HandleVote(t)
  \/ \E t \in Threads : HandleResolve(t)
  \/ \E t \in Threads : HandleMission(t)
  \/ \E t \in Threads : HandleAssassination(t)
  \/ \E t \in Threads : CheckGame(t)

SpecWeb == Init /\ [][NextWeb]_vars

(* ------------------------------------------------------------------ *)
(* AvalonGame.run_game (main.py 76-129), called once on the game as    *)
(* constructed: the same loop as auto_play_game, max_rounds = 20       *)
(* iterations of one phase handler each, run by one thread             *)
(* ------------------------------------------------------------------ *)

\* The head of the loop of run_game: while not game_over and round_count <
\* max_rounds, check_game_over, then the handler of the current phase
RunEnter(t) ==
  /\ request[t].pc \in {"idle", "loop"}
  /\ request[t].pc = "idle" => called = "__init__"
  /\ UNCHANGED << called, returned, dispatched, overlaps >>
  /\ IF game_over \/ ~(request[t].round_count < max_rounds)
     THEN /\ request' = [request EXCEPT ![t] = IdleRequest]
          /\ UNCHANGED state
     ELSE IF check_game_over(GameState).game_over
     THEN /\ game_over' = TRUE
          /\ winner' = check_game_over(GameState).winner
          /\ current_phase' = "FINISHED"
          /\ request' = [request EXCEPT ![t] = IdleRequest]
          /\ UNCHANGED << player_count, players, current_round, current_leader,
                          mission_results, proposed_team, votes, vote_round,
                          successful_missions, failed_missions, assassination_target >>
     ELSE /\ HandlerReads(t, "run", request[t].round_count + 1)
          /\ UNCHANGED state

NextRun ==
  \/ RunEnter("first")
  \/ HandleDiscussion("first")
  \/ HandleVote("first")
  \/ HandleResolve("first")
  \/ HandleMission("first")
  \/ HandleAssassination("first")
  \/ CheckGame("first")

SpecRun == Init /\ [][NextRun]_vars

(* ------------------------------------------------------------------ *)
(* Claims C1 - C10                                                     *)
(* ------------------------------------------------------------------ *)

\* C1: in every reachable state, game_over implies that winner is GOOD or EVIL
\* and that the phase is FINISHED.
C1_GameOverIsFinished ==
  game_over => (winner \in {"GOOD", "EVIL"} /\ current_phase = "FINISHED")

\* C2: once game_over is true, every call is rejected and leaves every field of
\* GameState unchanged.
C2_FrozenAfterGameOver ==
  [][game_over => (returned' \in {"False", "(False, False)"} /\ UNCHANGED state)]_vars

\* C3: propose_team succeeds only when leader_id is the current leader and the
\* phase is DISCUSSION or VOTING; any other call returns failure and leaves the
\* state unchanged.
C3_ProposeOnlyBeforeMission ==
  [][called' = "propose_team" =>
       \A leader_id \in LeaderInputs, team_members \in TeamInputs :
         propose_team(leader_id, team_members) =>
           IF leader_id = current_leader /\ current_phase \in {"DISCUSSION", "VOTING"}
           THEN TRUE
           ELSE returned' = "False" /\ UNCHANGED state]_vars

\* C4: propose_team by the current leader is rejected, with the state unchanged,
\* when the number of members differs from the round's team size or a member id
\* is no player id; otherwise it stores the given members as proposed_team and
\* sets the phase to VOTING.
C4_ProposeChecksTeam ==
  [][called' = "propose_team" =>
       \A team_members \in TeamInputs :
         propose_team(current_leader, team_members) =>
           IF \/ Len(team_members) # get_mission_configs(player_count)[current_round].team_size
              \/ \E i \in 1 .. Len(team_members) :
                   team_members[i] \notin 0 .. (Len(players) - 1)
           THEN returned' = "False" /\ UNCHANGED state
           ELSE /\ returned' = "True"
                /\ proposed_team' = team_members
                /\ current_phase' = "VOTING"]_vars

\* C4 witness: the current leader's proposal of the round's size was stored.
C4_Witness ==
  /\ called = "propose_team" /\ returned = "True"
  /\ current_phase = "VOTING"
  /\ current_round = 2
  /\ proposed_team = <<0, 1, 2>>

\* C5: a second vote_on_team call from a player who already voted is rejected and
\* leaves votes unchanged, whatever the approve value.
C5_SecondVoteRejected ==
  [][called' = "vote_on_team" =>
       \A player_id \in DOMAIN votes, approve \in BOOLEAN :
         vote_on_team(player_id, approve) =>
           (returned' = "False" /\ votes' = votes /\ UNCHANGED state)]_vars

\* C5 witness: in phase VOTING, with votes recorded, a vote was refused (in that
\* phase vote_on_team refuses nothing but a second vote).
C5_Witness ==
  /\ called = "vote_on_team" /\ returned = "False"
  /\ current_phase = "VOTING"
  /\ DOMAIN votes # {}

\* C6: a rejected proposal ends the game (game_over, winner EVIL, phase FINISHED)
\* exactly when it is the fifth of the round, whatever the mission tallies and the
\* round; an earlier one leaves game_over and winner as they were.
C6_FifthRejectionEndsGame ==
  [][(called' = "process_voting_result" /\ returned' = "(True, False)") =>
       /\ vote_round' = vote_round + 1
       /\ IF vote_round + 1 >= 5
          THEN game_over' /\ winner' = "EVIL" /\ current_phase' = "FINISHED"
          ELSE /\ game_over' = game_over /\ winner' = winner
               /\ current_phase' = "DISCUSSION"]_vars

\* C6 witness: the fifth rejection of round 5 ended a game with two successful
\* and two failed missions.
C6_Witness ==
  /\ called = "process_voting_result" /\ returned = "(True, False)"
  /\ vote_round = 5 /\ game_over /\ winner = "EVIL" /\ current_phase = "FINISHED"
  /\ current_round = 5 /\ successful_missions = 2 /\ failed_missions = 2

\* C7: when process_voting_result resolves the votes of the N players, the
\* proposal passes iff approve_count > N - approve_count; an equal split rejects.
C7_StrictMajority ==
  [][(/\ called' = "process_voting_result"
      /\ returned' \in {"(True, True)", "(True, False)"}
      /\ DOMAIN votes = 0 .. (Len(players) - 1)) =>
       LET approving == Cardinality({p \in DOMAIN votes : votes[p]})
       IN /\ (returned' = "(True, True)") <=> (approving > Len(players) - approving)
          /\ (current_phase' = "MISSION") <=> (approving > Len(players) - approving)]_vars

\* C7 witness: an equal split of 8 players was rejected (the votes of the fifth
\* rejection stay in votes).
C7_Witness ==
  /\ called = "process_voting_result" /\ returned = "(True, False)"
  /\ Len(players) = 8
  /\ DOMAIN votes = 0 .. 7
  /\ Cardinality({p \in DOMAIN votes : votes[p]}) = 4

\* C8: submit_mission_result is accepted only in phase MISSION with the key set of
\* the votes equal to the set of proposed_team members; otherwise it returns
\* failure, appends no MissionResult and leaves the state unchanged.
C8_SubmitChecksPhaseAndKeys ==
  [][called' = "submit_mission_result" =>
       \A mission_votes \in MissionVoteInputs :
         submit_mission_result(mission_votes) =>
           IF /\ current_phase = "MISSION"
              /\ DOMAIN mission_votes = {proposed_team[i] : i \in 1 .. Len(proposed_team)}
           THEN returned' = "True" /\ Len(mission_results') = Len(mission_results) + 1
           ELSE /\ returned' = "False"
                /\ mission_results' = mission_results
                /\ UNCHANGED state]_vars

\* C8 witness: in phase MISSION a result whose keys are not the team was refused.
C8_Witness ==
  /\ called = "submit_mission_result" /\ returned = "False"
  /\ current_phase = "MISSION"

\* C9: a mission succeeds iff its number of fail votes is below the round's
\* fails_needed, and the tallies count the missions so decided.
C9_MissionThreshold ==
  /\ \A i \in 1 .. Len(mission_results) :
       LET r     == mission_results[i]
           fails == Cardinality({m \in DOMAIN r.votes : ~r.votes[m]})
           need  == get_mission_configs(player_count)[r.round_number].fails_needed
       IN /\ r.fail_count = fails
          /\ r.success <=> (fails < need)
  /\ successful_missions =
       Cardinality({i \in 1 .. Len(mission_results) :
          mission_results[i].fail_count <
            get_mission_configs(player_count)[mission_results[i].round_number].fails_needed})
  /\ failed_missions = Len(mission_results) - successful_missions

\* C9 witness: a round with fails_needed = 2 succeeded with one fail vote.
C9_Witness ==
  \E i \in 1 .. Len(mission_results) :
    /\ get_mission_configs(player_count)[mission_results[i].round_number].fails_needed = 2
    /\ mission_results[i].fail_count = 1
    /\ mission_results[i].success

\* C10: once successful_missions has reached 3, no action appends a MissionResult
\* or raises successful_missions.
C10_NoMissionAfterThreeSuccesses ==
  [][successful_missions >= 3 =>
       (mission_results' = mission_results /\ successful_missions' = successful_missions)]_vars

(* ------------------------------------------------------------------ *)
(* Claims C11 - C20                                                    *)
(* ------------------------------------------------------------------ *)

\* C11: the mission result that brings failed_missions to 3, with fewer than 3
\* successes, ends the game in that step (game_over, winner EVIL, phase
\* FINISHED), and from then on the phase never becomes ASSASSINATION.
C11_ThirdFailureEndsGame ==
  [][/\ (/\ called' = "submit_mission_result" /\ returned' = "True"
         /\ failed_missions = 2 /\ failed_missions' = 3
         /\ successful_missions' < 3) =>
          (game_over' /\ winner' = "EVIL" /\ current_phase' = "FINISHED")
     /\ (failed_missions >= 3 /\ successful_missions < 3) =>
          current_phase' # "ASSASSINATION"]_vars

\* C12: assassinate is accepted only in phase ASSASSINATION; an accepted call
\* records the target, sets game_over and phase FINISHED, and sets winner to EVIL
\* iff the target's role is Merlin, to GOOD otherwise.
C12_AssassinateDecides ==
  [][called' = "assassinate" =>
       \A target_player_id \in TargetInputs :
         (assassinate(target_player_id) /\ returned' = "True") =>
           /\ current_phase = "ASSASSINATION"
           /\ assassination_target' = target_player_id
           /\ game_over'
           /\ current_phase' = "FINISHED"
           /\ winner' = IF /\ target_player_id \in 0 .. (Len(players) - 1)
                           /\ players[target_player_id + 1] = "MERLIN"
                        THEN "EVIL" ELSE "GOOD"]_vars

\* C12 witness: the assassin named the Merlin player and EVIL won.
C12_Witness ==
  /\ called = "assassinate" /\ returned = "True"
  /\ assassination_target \in 0 .. (Len(players) - 1)
  /\ players[assassination_target + 1] = "MERLIN"
  /\ game_over /\ winner = "EVIL" /\ current_phase = "FINISHED"

\* C13: assassinate in phase ASSASSINATION with a target that is no player id
\* returns failure without raising and leaves assassination_target, the phase,
\* game_over and winner unchanged.
C13_UnknownTargetRejected ==
  [][called' = "assassinate" =>
       \A target_player_id \in TargetInputs :
         (/\ current_phase = "ASSASSINATION"
          /\ target_player_id \notin 0 .. (Len(players) - 1)
          /\ assassinate(target_player_id)) =>
           /\ returned' = "False"
           /\ UNCHANGED << assassination_target, current_phase, game_over, winner >>]_vars

\* C14: for every player count from 5 to 10, get_standard_roles returns exactly
\* player_count roles, one Merlin, one Assassin, and as many EVIL roles as the
\* table 5:2, 6:2, 7:3, 8:3, 9:3, 10:4, which is get_evil_count(player_count).
C14_StandardRoles ==
  player_count \in 5 .. 10 =>
    LET roles     == get_standard_roles(player_count)
        count(S)  == Cardinality({i \in 1 .. Len(roles) : roles[i] \in S})
        canonical == CASE player_count = 5  -> 2
                       [] player_count = 6  -> 2
                       [] player_count = 7  -> 3
                       [] player_count = 8  -> 3
                       [] player_count = 9  -> 3
                       [] player_count = 10 -> 4
    IN /\ Len(roles) = player_count
       /\ count({"MERLIN"}) = 1
       /\ count({"ASSASSIN"}) = 1
       /\ count({"ASSASSIN", "MORGANA", "MORDRED", "OBERON", "MINION"}) = canonical
       /\ count({r \in RoleType : RoleTeam(r) = "EVIL"}) = canonical
       /\ get_evil_count(player_count) = canonical

\* C15: the private information of a player carries the exact role for the
\* player itself only; the entry of a visible other player carries the team only
\* (for Percival: the possible_merlin flag only, team None); the entry of a
\* player who is not visible carries neither team nor role.
C15_PrivateInfoHidesRoles ==
  called = "get_player_info" =>
    LET info    == returned
        entries == {info.all_players[i] : i \in 1 .. Len(info.all_players)}
                     \cup {info.visible_players[i] : i \in 1 .. Len(info.visible_players)}
        selves  == {e \in entries : e.is_self}
    IN /\ Len(info.all_players) = Len(players)
       /\ \A i \in 1 .. Len(info.all_players) : info.all_players[i].player_id = i - 1
       /\ Cardinality({e.player_id : e \in selves}) = 1
       /\ \A self \in selves :
            /\ self.role = players[self.player_id + 1]
            /\ info.my_role = players[self.player_id + 1]
            /\ \A e \in entries \ selves :
                 LET viewer == players[self.player_id + 1]
                     other  == players[e.player_id + 1]
                     seen   == CASE viewer = "MERLIN" ->
                                      other \in {"ASSASSIN", "OBERON", "MINION"}
                                 [] viewer = "PERCIVAL" -> other \in {"MERLIN", "MORGANA"}
                                 [] viewer \in {"ASSASSIN", "MORGANA", "MORDRED", "MINION"} ->
                                      other \in {"ASSASSIN", "MORGANA", "MORDRED", "MINION"}
                                 [] OTHER -> FALSE
                 IN /\ "role" \in DOMAIN e => e.role = "None"
                    /\ IF ~seen
                       THEN e.team = "None" /\ "possible_merlin" \notin DOMAIN e
                       ELSE IF viewer = "PERCIVAL"
                       THEN e.team = "None" /\ e.possible_merlin /\ "role" \notin DOMAIN e
                       ELSE /\ e.team = (IF other \in {"MERLIN", "PERCIVAL", "SERVANT"}
                                         THEN "GOOD" ELSE "EVIL")
                            /\ "possible_merlin" \notin DOMAIN e

\* C15 witness: Merlin's information in a 10-player game: a visible EVIL player
\* by team and a hidden player.
C15_Witness ==
  /\ called = "get_player_info"
  /\ returned.my_role = "MERLIN"
  /\ Len(players) = 10
  /\ \E i \in 1 .. Len(returned.all_players) :
       ~returned.all_players[i].is_self /\ returned.all_players[i].team = "EVIL"
  /\ \E i \in 1 .. Len(returned.all_players) :
       /\ players[i] \in {"MORGANA", "MORDRED"}
       /\ returned.all_players[i].team = "None"

\* C16: constructing a game raises, and builds no game, whenever the number of
\* names differs from player_count or player_count is outside 5..10.
C16_ConstructionChecksArguments ==
  [][called' \in {"GameEngine", "AvalonGame"} =>
       \A count \in SetupCounts, names \in SetupCounts :
         (/\ names # count \/ count \notin 5 .. 10
          /\ \/ GameEngine_init("GameEngine", count, names)
             \/ AvalonGame_init(count, names)) =>
           (returned' = "raise" /\ UNCHANGED state)]_vars

\* C17: two requests on the same game are serialized: every engine call of a
\* request meets the game as in a sequential order of the requests, that is in
\* the phase the request's handler started in and accepted by the engine; the
\* calls of two handlers never interleave.
C17_RequestsSerialized ==
  [][\A t \in Threads :
       (/\ request[t].pc \in {"propose", "vote", "resolve", "submit", "assassinate"}
        /\ request'[t] # request[t]) =>
         /\ current_phase = request[t].phase
         /\ returned' \in {"True", "(True, True)", "(True, False)"}
         /\ \A u \in Threads \ {t} :
              ~(request[u].pc \in {"vote", "resolve"} /\ request[u].agent > 0)]_vars

\* C19: in every reachable state whose phase is VOTING or MISSION, proposed_team
\* has as many members as the team_size configured for current_round.
C19_TeamSizeInVotingAndMission ==
  current_phase \in {"VOTING", "MISSION"} =>
    Len(proposed_team) = get_mission_configs(player_count)[current_round].team_size

\* C19 witness: phase MISSION in round 2 with a team of three, after a round
\* played with a team of two.
C19_Witness ==
  /\ current_phase = "MISSION"
  /\ current_round = 2
  /\ Len(proposed_team) = 3
  /\ Len(mission_results) = 1
  /\ Len(mission_results[1].team_members) = 2

\* C20: the keys of votes are player ids (a vote from an unknown id is
\* rejected), so votes never holds more than N entries, and once N votes are
\* recorded no further vote is accepted before process_voting_result.
C20_VotesOfPlayersOnly ==
  [][/\ DOMAIN votes' \subseteq 0 .. (Len(players) - 1)
     /\ Cardinality(DOMAIN votes') <= Len(players)
     /\ (called' = "vote_on_team" /\ Cardinality(DOMAIN votes) >= Len(players)) =>
          (returned' = "False" /\ votes' = votes)]_vars

(* ------------------------------------------------------------------ *)
(* Claims C21 - C30                                                    *)
(* ------------------------------------------------------------------ *)

\* C21: in every state reachable by any sequence of actions, including actions
\* issued after the game has ended, vote_round is between 0 and 5 inclusive.
C21_VoteRoundAtMostFive == vote_round \in 0 .. 5

\* C22 as stated: current_leader is always a valid player id, advances by
\* exactly 1 modulo N on every rejected vote and after every accepted
\* submit_mission_result, and changes at no other time.
C22_LeaderAdvancesOnEveryRejectAndMission ==
  [][/\ current_leader' \in 0 .. (Len(players') - 1)
     /\ IF \/ called' = "process_voting_result" /\ returned' = "(True, False)"
           \/ called' = "submit_mission_result" /\ returned' = "True"
        THEN current_leader' = (current_leader + 1) % Len(players)
        ELSE current_leader' = current_leader]_vars

\* C22 amended: current_leader is always a valid player id; it advances by
\* exactly 1 modulo N on every rejected vote that is not the fifth (or a later)
\* rejection and after every accepted submit_mission_result that opens the next
\* round (neither tally reaches 3 and a round is left); it changes at no other
\* time, so the rejection and the mission result that end the play keep it.
C22_LeaderAdvancesWhilePlayContinues ==
  [][/\ current_leader' \in 0 .. (Len(players') - 1)
     /\ IF \/ /\ called' = "process_voting_result" /\ returned' = "(True, False)"
              /\ vote_round + 1 < 5
           \/ /\ called' = "submit_mission_result" /\ returned' = "True"
              /\ successful_missions' < 3 /\ failed_missions' < 3
              /\ current_round < 5
        THEN current_leader' = (current_leader + 1) % Len(players)
        ELSE current_leader' = current_leader]_vars

\* C22 witness: after two missions and three rejections the leader has passed
\* the last seat and is seat 0 again.
C22_Witness ==
  /\ called = "process_voting_result" /\ returned = "(True, False)"
  /\ Len(mission_results) = 2 /\ current_round = 3 /\ vote_round = 3
  /\ Len(players) = 5
  /\ current_leader = 0
  /\ current_phase = "DISCUSSION"

\* C23: in every reachable state successful_missions + failed_missions is the
\* number of entries of mission_results, successful_missions the number of
\* entries whose success flag is true and failed_missions the number of those
\* whose flag is false.
C23_TalliesCountResults ==
  /\ successful_missions + failed_missions = Len(mission_results)
  /\ successful_missions =
       Cardinality({i \in 1 .. Len(mission_results) : mission_results[i].success})
  /\ failed_missions =
       Cardinality({i \in 1 .. Len(mission_results) : ~mission_results[i].success})

\* C23 witness: four missions were recorded, two of each outcome, a failed one
\* first.
C23_Witness ==
  /\ Len(mission_results) = 4
  /\ successful_missions = 2 /\ failed_missions = 2
  /\ ~mission_results[1].success

\* C24: in every reachable state check_game_over(state) returns exactly
\* (state.game_over, state.winner): over with the same winner whenever the engine
\* has declared one (stalemate in any round 1..5, third failed mission, completed
\* assassination), not over otherwise.
C24_CheckerAgreesWithEngine ==
  /\ ~check_game_over(GameState).raised
  /\ check_game_over(GameState).game_over = game_over
  /\ check_game_over(GameState).winner = winner

\* C25: every phase change made by the engine follows one of the edges
\* DISCUSSION -> VOTING, VOTING -> MISSION, VOTING -> DISCUSSION,
\* VOTING -> FINISHED, MISSION -> ASSASSINATION, MISSION -> DISCUSSION,
\* MISSION -> FINISHED, ASSASSINATION -> FINISHED; in particular FINISHED is never
\* left and no action leads from MISSION, ASSASSINATION or FINISHED back to VOTING
\* or from ASSASSINATION back to MISSION.
C25_PhaseEdges ==
  [][current_phase' # current_phase =>
       << current_phase, current_phase' >> \in
         { << "DISCUSSION", "VOTING" >>, << "VOTING", "MISSION" >>,
           << "VOTING", "DISCUSSION" >>, << "VOTING", "FINISHED" >>,
           << "MISSION", "ASSASSINATION" >>, << "MISSION", "DISCUSSION" >>,
           << "MISSION", "FINISHED" >>, << "ASSASSINATION", "FINISHED" >> }]_vars

\* C26: Oberon sees no role, and no EVIL role (Assassin, Morgana, Mordred,
\* Minion, Oberon) sees Oberon.
C26_OberonIsolated ==
  called = "can_see" =>
    /\ returned.self = "OBERON" => ~returned.visible
    /\ (/\ returned.self \in {"ASSASSIN", "MORGANA", "MORDRED", "MINION", "OBERON"}
        /\ returned.other_role = "OBERON") => ~returned.visible

\* C26 witness: the Assassin was asked about Oberon, and does not see that role.
C26_Witness ==
  /\ called = "can_see"
  /\ returned.self = "ASSASSIN" /\ returned.other_role = "OBERON"
  /\ ~returned.visible

\* C27: visibility is not symmetric: Percival sees exactly Merlin and Morgana,
\* and neither of them sees Percival; Merlin sees the EVIL roles other than
\* Mordred and Morgana (Assassin, Oberon, Minion), and none of them sees Merlin.
C27_VisibilityNotSymmetric ==
  called = "can_see" =>
    /\ returned.self = "PERCIVAL" =>
         (returned.visible <=> returned.other_role \in {"MERLIN", "MORGANA"})
    /\ (returned.self \in {"MERLIN", "MORGANA"} /\ returned.other_role = "PERCIVAL") =>
         ~returned.visible
    /\ returned.self = "MERLIN" =>
         (returned.visible <=> returned.other_role \in {"ASSASSIN", "OBERON", "MINION"})
    /\ (/\ returned.self \in {"ASSASSIN", "OBERON", "MINION"}
        /\ returned.other_role = "MERLIN") => ~returned.visible

\* C27 witness: Morgana, whom Percival sees, was asked about Percival and does
\* not see that role.
C27_Witness ==
  /\ called = "can_see"
  /\ returned.self = "MORGANA" /\ returned.other_role = "PERCIVAL"
  /\ ~returned.visible

\* C28: when process_voting_result resolves a vote that passes, the resulting
\* state has votes empty, vote_round = 0 and phase MISSION, with proposed_team,
\* current_leader and current_round unchanged.
C28_PassClearsVotes ==
  [][(called' = "process_voting_result" /\ returned' = "(True, True)") =>
       /\ DOMAIN votes' = {}
       /\ vote_round' = 0
       /\ current_phase' = "MISSION"
       /\ UNCHANGED << proposed_team, current_leader, current_round >>]_vars

\* C29: when process_voting_result resolves a rejected vote that is not the
\* fifth rejection of the round, the resulting state has vote_round increased by
\* 1, current_leader = (old leader + 1) mod N, votes empty, proposed_team empty,
\* phase DISCUSSION and current_round unchanged.
C29_RejectionResetsProposal ==
  [][(/\ called' = "process_voting_result" /\ returned' = "(True, False)"
      /\ vote_round + 1 < 5) =>
       /\ vote_round' = vote_round + 1
       /\ current_leader' = (current_leader + 1) % Len(players)
       /\ DOMAIN votes' = {}
       /\ proposed_team' = << >>
       /\ current_phase' = "DISCUSSION"
       /\ current_round' = current_round]_vars

\* C30: process_voting_result changes the state only when the phase is VOTING
\* and all N players have voted; called with fewer than N votes or in any other
\* phase it reports not-completed and leaves the whole state unchanged.
C30_ResolveOnlyInVoting ==
  [][called' = "process_voting_result" =>
       (~(/\ current_phase = "VOTING"
          /\ 0 .. (Len(players) - 1) \subseteq DOMAIN votes) =>
          (returned' = "(False, False)" /\ UNCHANGED state))]_vars

(* ------------------------------------------------------------------ *)
(* Claims C31 - C40                                                    *)
(* ------------------------------------------------------------------ *)

\* C31: when an accepted submit_mission_result leaves both successful_missions
\* and failed_missions below 3 and a further round is configured, the resulting
\* state has current_round increased by 1, current_leader advanced by 1 modulo N,
\* proposed_team empty, votes empty, vote_round = 0 and phase DISCUSSION.
C31_MissionOpensNextRound ==
  [][(/\ called' = "submit_mission_result" /\ returned' = "True"
      /\ successful_missions' < 3 /\ failed_missions' < 3
      /\ current_round < Len(get_mission_configs(player_count))) =>
       /\ current_round' = current_round + 1
       /\ current_leader' = (current_leader + 1) % Len(players)
       /\ proposed_team' = << >>
       /\ DOMAIN votes' = {}
       /\ vote_round' = 0
       /\ current_phase' = "DISCUSSION"]_vars

\* C31 witness: the third mission of a 7-player game opened round 4 with one tally
\* at 2 and the other at 1.
C31_Witness ==
  /\ called = "submit_mission_result" /\ returned = "True"
  /\ Len(players) = 7
  /\ Len(mission_results) = 3 /\ current_round = 4
  /\ successful_missions < 3 /\ failed_missions < 3
  /\ current_phase = "DISCUSSION"
  /\ proposed_team = << >> /\ DOMAIN votes = {} /\ vote_round = 0

\* C32: the 'no further round configured' branch of submit_mission_result is
\* never taken: in no reachable state does current_round exceed 5, so
\* mission_configs[current_round - 1] is always a valid lookup, and no accepted
\* submit_mission_result leaves both tallies below 3 in the last configured round
\* (the case decided by comparing the mission counts).
C32_NoRoundBeyondLast ==
  [][/\ current_round' \in 1 .. Len(get_mission_configs(player_count))
     /\ ~(/\ called' = "submit_mission_result" /\ returned' = "True"
          /\ successful_missions' < 3 /\ failed_missions' < 3
          /\ current_round >= Len(get_mission_configs(player_count)))]_vars

\* C32 witness: a mission result was accepted in round 5, the last configured
\* round, after two successes and two failures.
C32_Witness ==
  /\ called = "submit_mission_result" /\ returned = "True"
  /\ current_round = 5
  /\ Len(mission_results) = 5
  /\ mission_results[5].round_number = 5
  /\ successful_missions + failed_missions = 5
  /\ successful_missions >= 2 /\ failed_missions >= 2

\* C33: mission_results is append-only: it grows by exactly one entry on each
\* accepted submit_mission_result and by none on any other action or on a
\* rejected call, and the entries already recorded never change.
C33_ResultsAppendOnly ==
  [][/\ Len(mission_results') =
          IF called' = "submit_mission_result" /\ returned' = "True"
          THEN Len(mission_results) + 1
          ELSE Len(mission_results)
     /\ \A i \in 1 .. Len(mission_results) : mission_results'[i] = mission_results[i]]_vars

\* C33 witness: a second result was recorded after a first one, and a call of
\* another method followed.
C33_Witness ==
  /\ Len(mission_results) = 2
  /\ mission_results[1].round_number = 1 /\ mission_results[2].round_number = 2
  /\ called = "propose_team" /\ returned = "True"

\* C34: every vote counted by process_voting_result was cast for the team that
\* is proposed at the moment of resolution. process_voting_result counts all of
\* votes, and a vote is cast by a vote_on_team call only, so a resolution never
\* comes directly after an accepted propose_team, nor directly after another
\* resolution: the votes it counts would all have been recorded for an earlier
\* proposal.
C34_VotesCastForCurrentProposal ==
  [][(called' = "process_voting_result"
        /\ returned' \in {"(True, True)", "(True, False)"}) =>
       /\ ~(called = "propose_team" /\ returned = "True")
       /\ ~(called = "process_voting_result"
              /\ returned \in {"(True, True)", "(True, False)"})]_vars

\* C35: the winner is stable: once winner is GOOD or EVIL no action changes it
\* to the other team or clears it, and assassination_target, once recorded,
\* never changes.
C35_WinnerAndTargetStable ==
  [][/\ winner \in {"GOOD", "EVIL"} => winner' = winner
     /\ assassination_target # NoTarget =>
          assassination_target' = assassination_target]_vars

\* C36: at most one MissionResult is recorded per round: in every reachable
\* state the round_number fields of mission_results are 1, 2, ...,
\* len(mission_results) in order, and len(mission_results) is at most 5.
C36_OneResultPerRound ==
  /\ Len(mission_results) <= 5
  /\ \A i \in 1 .. Len(mission_results) : mission_results[i].round_number = i

\* C37: the members of an accepted proposed team are pairwise distinct, so a
\* mission is decided by exactly team_size mission votes; propose_team never
\* accepts a member list that names the same player twice.
C37_TeamMembersDistinct ==
  /\ current_phase \in {"VOTING", "MISSION"} =>
       \A i, j \in 1 .. Len(proposed_team) :
         proposed_team[i] = proposed_team[j] => i = j
  /\ \A i \in 1 .. Len(mission_results) :
       Cardinality(DOMAIN mission_results[i].votes) =
         get_mission_configs(player_count)[mission_results[i].round_number].team_size

\* C38: Percival cannot tell Merlin from Morgana: the private information
\* computed for the Percival player is the same for two role assignments that
\* differ only by exchanging the roles of the Merlin and the Morgana player. It
\* is the payload built from the assignment in which the two roles are not told
\* apart (blind), which is the same assignment before and after the exchange.
C38_PercivalCannotTellMerlin ==
  (called = "get_player_info" /\ returned.my_role = "PERCIVAL") =>
    LET blind    == [i \in 1 .. Len(players) |->
                       IF players[i] \in {"MERLIN", "MORGANA"}
                       THEN "MERLIN_OR_MORGANA" ELSE players[i]]
        seats    == [i \in 1 .. Len(players) |-> i - 1]
        percival == CHOOSE p \in 0 .. (Len(players) - 1) : blind[p + 1] = "PERCIVAL"
        entry(p) == IF p = percival
                    THEN [ player_id |-> p, name |-> p, is_self |-> TRUE,
                           role |-> "PERCIVAL", team |-> "GOOD" ]
                    ELSE IF blind[p + 1] = "MERLIN_OR_MORGANA"
                    THEN [ player_id |-> p, name |-> p, is_self |-> FALSE,
                           possible_merlin |-> TRUE, team |-> "None" ]
                    ELSE [ player_id |-> p, name |-> p, is_self |-> FALSE,
                           team |-> "None", role |-> "None" ]
        marked   == SelectSeq(seats, LAMBDA p : blind[p + 1] = "MERLIN_OR_MORGANA")
    IN returned =
         [ my_role         |-> "PERCIVAL",
           my_team         |-> "GOOD",
           visible_players |-> << entry(percival) >> \o
                                 [i \in 1 .. Len(marked) |-> entry(marked[i])],
           all_players     |-> [i \in 1 .. Len(players) |-> entry(i - 1)],
           total_players   |-> Len(players) ]

\* C38 witness: Percival's information in a game whose Morgana sits before its
\* Merlin (the roles dealt rotated), both marked possible_merlin.
C38_Witness ==
  /\ called = "get_player_info" /\ returned.my_role = "PERCIVAL"
  /\ Len(returned.visible_players) = 3
  /\ \E i, j \in 1 .. Len(players) :
       /\ i < j /\ players[i] = "MORGANA" /\ players[j] = "MERLIN"
       /\ returned.all_players[i] = [returned.all_players[j] EXCEPT !.player_id = i - 1,
                                                                  !.name = i - 1]
       /\ returned.all_players[i].possible_merlin

\* C39: every game terminates: when the driver keeps issuing the action that
\* fits the current phase, the engine eventually reaches phase FINISHED with
\* game_over true, after at most 5 missions and at most 5 proposals (rejections)
\* per mission round.
C39_EveryGameTerminates ==
  /\ <>[](game_over /\ current_phase = "FINISHED")
  /\ [](Len(mission_results) <= 5 /\ vote_round <= 5)

\* C39 witness: a game that ended with the fifth rejection of round 5, after
\* four missions.
C39_Witness ==
  /\ game_over /\ current_phase = "FINISHED"
  /\ Len(mission_results) = 4 /\ current_round = 5 /\ vote_round = 5

\* C40: the orchestrator loops (run_game and the auto-play endpoint, bounded to
\* 20 iterations of one phase handler each) always leave the game finished with
\* a winner: when the loop exits, game_over is true and winner is set.
C40_LoopLeavesGameFinished ==
  [][\A t \in Threads :
       (request[t].pc # "idle" /\ request'[t].pc = "idle"
          /\ request[t].kind \in {"run", "auto"}) =>
         (game_over' /\ winner' \in {"GOOD", "EVIL"})]_vars

====
